---- MODULE Spec2Model ----
(***************************************************************************)
(* Model of Source/Program/Main.cpp (StandaloneAsio): the command line     *)
(* (main, ApplicationConfig::Create), the server run (RunServer), the      *)
(* connection acceptor (class Server) and the per-socket read loop (class  *)
(* Session) on one single-threaded asio::io_context.                       *)
(*                                                                         *)
(* The asio library is modelled by its documented contract: an             *)
(* asynchronous operation stays outstanding until run_one() executes its   *)
(* completion handler; async_read with the default completion condition    *)
(* succeeds once the supplied buffer is full; closing a socket makes its   *)
(* outstanding operations complete with operation_aborted; destroying the  *)
(* io_context discards the handlers that were never run.                   *)
(***************************************************************************)
EXTENDS Integers, Sequences, FiniteSets, TLC

\* ---------------------------------------------------------------- bounds
\* Inbound connections the peers open during one run.
MaxConnections == 2
\* Accept completions that the environment fails during one run.
MaxAcceptErrors == 1
\* Bytes a peer may have in flight (delivered, not yet read) on one socket.
MaxInbox == 1
\* Tokens on the command line, the program's name included.
MaxArgs == 4

\* ------------------------------------------------------ program constants
\* RunServer: do { ... } while (l_Ops < 100);
OpsThreshold == 100
\* Session::m_ReadBuffer is a default-constructed asio::mutable_buffer that
\* no constructor ever points at storage: its size() is 0.
ReadBufferSize == 0

Bytes == {"a"}
SocketIds == 1..MaxConnections
SessionIds == 1..MaxConnections
NoSocket == 0

VARIABLES
    pc,                  \* position of main/RunServer
    l_Ops,               \* RunServer::l_Ops
    l_Sessions,          \* RunServer::l_Sessions (sequence of Session ids)
    teardownIdx,         \* position of the range-for over l_Sessions
    dtorStep,            \* statement of ~Session about to run (1 or 2)
    m_ConnectionsCount,  \* Server::m_ConnectionsCount
    m_ConnectedSockets,  \* Server::m_ConnectedSockets (sequence of socket ids)
    Server_MasterExit,   \* Server::m_MasterExit
    acceptorOpen,        \* Server::m_Acceptor is open
    acceptOutstanding,   \* async_accept operations armed and not yet completed
    sess,                \* the Session objects, by id
    sockets,             \* the accepted sockets, by id: open flag and inbox
    backlog,             \* inbound connections not yet accepted
    connsMade,           \* inbound connections opened so far
    acceptErrs,          \* accept completions failed so far
    lastOp,              \* the completion run_one() executed last
    received,            \* per Session: payloads of the non-empty successful reads
    executed,            \* completion handlers invoked so far
    discarded,           \* handlers dropped unexecuted by ~io_context
    emptyFront,          \* GetNextConnection was called on an empty queue
    danglingCall,        \* a handler ran on an object already destroyed
    p_argv,              \* main: the command line as the user typed it
    l_Params,            \* main::l_Params
    l_Config             \* main::l_Config

vars == <<pc, l_Ops, l_Sessions, teardownIdx, dtorStep, m_ConnectionsCount,
          m_ConnectedSockets, Server_MasterExit, acceptorOpen,
          acceptOutstanding, sess, sockets, backlog, connsMade, acceptErrs,
          lastOp, received, executed, discarded, emptyFront, danglingCall,
          p_argv, l_Params, l_Config>>

driverVars == <<pc, l_Ops, l_Sessions, teardownIdx, dtorStep>>
serverVars == <<m_ConnectionsCount, m_ConnectedSockets, Server_MasterExit,
                acceptorOpen, acceptOutstanding>>
peerVars == <<backlog, connsMade, acceptErrs>>
faultVars == <<discarded, emptyFront, danglingCall>>
envVars == <<executed, faultVars>>
mainVars == <<p_argv, l_Params, l_Config>>

NoOp == [kind |-> "none", id |-> 0, ec |-> "ok", bytes |-> 0]

\* A Session object before `new Session(...)` has run.
Unborn ==
    [state |-> "unborn", m_Socket |-> NoSocket, m_MasterExit |-> FALSE,
     m_ReadWait |-> FALSE, m_Messages |-> <<>>, reads |-> 0]

\* `closes` counts the m_Socket.close() calls made on the socket.
ClosedSocket == [exists |-> FALSE, open |-> FALSE, inbox |-> <<>>, closes |-> 0]

\* ----------------------------------------------------------- class Session

\* Variant: the guard forgets the read-pending flag.
StartReadGuard_IgnoresWait(open, wait) == open

\* if (m_Socket.is_open() && !m_ReadWait)
StartReadGuard(open, wait) == open /\ ~wait

\* Session::StartRead: arm one async_read when the guard holds.
StartRead(se, open) ==
    IF StartReadGuard(open, se.m_ReadWait)
    THEN [se EXCEPT !.m_ReadWait = TRUE, !.reads = @ + 1]
    ELSE se

\* Variant: every successful read is pushed, an empty one too.
PushGuard_AnySuccess(ec, size) == ec = "ok"

\* if (!p_Error) { if (m_ReadBuffer.size() > 0) { ... push ... } }
PushGuard(ec, size) == ec = "ok" /\ size > 0

\* Variant: the re-arm sits inside the success branch.
ReArmRead_OnlyOnSuccess(ec, exit) == ec = "ok" /\ ~exit

\* if (!m_MasterExit) { StartRead(); } after the if (!p_Error) block: the
\* error code plays no part.
ReArmRead(ec, exit) == ~exit

\* The completion handler of async_read: the lambda in Session::StartRead.
\* `data` is what the read left in m_ReadBuffer.
ReadHandler(se, open, ec, data) ==
    LET s1 == [se EXCEPT !.m_ReadWait = FALSE, !.reads = @ - 1]
        s2 == IF PushGuard(ec, ReadBufferSize)
              THEN [s1 EXCEPT !.m_Messages = Append(@, data)]
              ELSE s1
    IN  IF ReArmRead(ec, s2.m_MasterExit) THEN StartRead(s2, open) ELSE s2

\* Session::Session(socket&): takes the socket over and arms the first read.
NewSession(sock, open) ==
    StartRead([Unborn EXCEPT !.state = "live", !.m_Socket = sock], open)

\* Variant: the test of is_open() is inverted.
Close_OnlyIfClosed(so) ==
    IF ~so.open THEN [so EXCEPT !.open = FALSE, !.closes = @ + 1] ELSE so

\* Variant: close() is called without looking at is_open().
Close_Unguarded(so) == [so EXCEPT !.open = FALSE, !.closes = @ + 1]

\* Session::Close: if (m_Socket.is_open()) m_Socket.close();
Close(so) ==
    IF so.open THEN [so EXCEPT !.open = FALSE, !.closes = @ + 1] ELSE so

\* Session::InReadWait
InReadWait(s) == sess[s].m_ReadWait

\* Variant: the destructor closes before it sets the flag.
DtorStatement_CloseFirst(k) == IF k = 1 THEN "close" ELSE "flag"

\* ~Session runs `m_MasterExit = true;` and then `Close();`.
DtorStatement(k) == IF k = 1 THEN "flag" ELSE "close"

\* ------------------------------------------------------------ class Server

\* Variant: the incoming socket is pushed whatever the error code.
AcceptPushes_Always(ec) == TRUE

\* if (!p_Error) { ... m_ConnectedSockets.push(...) }
AcceptPushes(ec) == ec = "ok"

\* Variant: the re-arm sits inside the success branch.
ReArmAccept_OnlyOnSuccess(ec, exit) == ec = "ok" /\ ~exit

\* Variant: the test of the exit flag is inverted.
ReArmAccept_Inverted(ec, exit) == exit

\* if (!m_MasterExit) { StartAccept(); } after the if/else on p_Error: the
\* error code plays no part.
ReArmAccept(ec, exit) == ~exit

\* Server::ConnectionWaiting
\* Variant: the Acceptor always reports a waiting connection.
ConnectionWaiting_Always == TRUE

\* Server::ConnectionWaiting: !m_ConnectedSockets.empty()
ConnectionWaiting == m_ConnectedSockets # <<>>

\* Variant: the front socket is handed out and left in the queue.
QueueAfterPop_NoPop(q) == q

\* Server::GetNextConnection: m_ConnectedSockets.pop() after moving front().
QueueAfterPop(q) == Tail(q)

\* ------------------------------------------------ main and ApplicationConfig
\* A std::string is the sequence of its characters.
c_ServerString == <<"s", "e", "r", "v", "e", "r">>
c_ClientString == <<"c", "l", "i", "e", "n", "t">>
c_PortString == <<"p", "o", "r", "t">>
c_AddressString == <<"a", "d", "d", "r", "e", "s", "s">>
c_DefaultAddressString == <<"1", "2", "7", ".", "0", ".", "0", ".", "1">>
c_DefaultPortNumber == 7500

\* using PortNumber = unsigned short: static_cast<PortNumber> keeps the
\* value modulo 2^16.
PortModulus == 65536
\* The largest int; std::stoi throws std::out_of_range beyond it.
IntMax == 2147483647

\* Tokens of the command lines: the program's name, the keywords (one of
\* them as a user may capitalise it), an IPv4 address and a port number.
ProgramName == <<"a", "p", "p">>
ServerCapitalised == <<"S", "e", "r", "v", "e", "r">>
SomeAddress == <<"1", ".", "2", ".", "3", ".", "4">>
SomePort == <<"8", "0", "0", "0">>
ArgTokens ==
    {ProgramName, c_ServerString, ServerCapitalised, c_ClientString,
     c_AddressString, c_PortString, SomeAddress, SomePort}

\* The command lines of at most MaxArgs tokens (argv[0] included).
ArgLists == UNION {[1..n -> ArgTokens] : n \in 0..MaxArgs}

UpperCase == <<"A", "B", "C", "D", "E", "F", "G", "H", "I", "J", "K", "L", "M",
               "N", "O", "P", "Q", "R", "S", "T", "U", "V", "W", "X", "Y", "Z">>
LowerCase == <<"a", "b", "c", "d", "e", "f", "g", "h", "i", "j", "k", "l", "m",
               "n", "o", "p", "q", "r", "s", "t", "u", "v", "w", "x", "y", "z">>

\* std::tolower in the "C" locale.
ToLower(c) ==
    IF \E i \in 1..26 : UpperCase[i] = c
    THEN LowerCase[CHOOSE i \in 1..26 : UpperCase[i] = c]
    ELSE c

\* void StringToLower(std::string&)
StringToLower(str) == [i \in 1..Len(str) |-> ToLower(str[i])]

DecimalDigits == <<"0", "1", "2", "3", "4", "5", "6", "7", "8", "9">>
IsDigit(c) == \E d \in 1..10 : DecimalDigits[d] = c
DigitValue(c) == (CHOOSE d \in 1..10 : DecimalDigits[d] = c) - 1

\* Position of the first character of str at or after i that is no space.
RECURSIVE SkipSpaces(_, _)
SkipSpaces(str, i) ==
    IF i <= Len(str) /\ str[i] = " " THEN SkipSpaces(str, i + 1) ELSE i

\* Number of decimal digits of str in a row from position i on.
RECURSIVE DigitRun(_, _)
DigitRun(str, i) ==
    IF i <= Len(str) /\ IsDigit(str[i]) THEN 1 + DigitRun(str, i + 1) ELSE 0

\* Value of the n digits of str from position i on, given the value acc of
\* the digits before them.
RECURSIVE DigitsValue(_, _, _, _)
DigitsValue(str, i, n, acc) ==
    IF n = 0 THEN acc
    ELSE DigitsValue(str, i + 1, n - 1, 10 * acc + DigitValue(str[i]))

\* std::stoi(str): leading spaces, an optional sign, then the longest run
\* of digits; what follows the digits is ignored. No digit at all throws
\* std::invalid_argument, a value no int holds throws std::out_of_range.
stoi(str) ==
    LET b == SkipSpaces(str, 1)
        signed == b <= Len(str) /\ str[b] \in {"+", "-"}
        d == IF signed THEN b + 1 ELSE b
        n == DigitRun(str, d)
        magnitude == DigitsValue(str, d, n, 0)
        value == IF signed /\ str[b] = "-" THEN 0 - magnitude ELSE magnitude
    IN  IF n = 0 THEN [thrown |-> "invalid_argument", value |-> 0]
        ELSE IF value > IntMax \/ value < 0 - IntMax - 1
             THEN [thrown |-> "out_of_range", value |-> 0]
             ELSE [thrown |-> "none", value |-> value]

\* TryParse<int>(p_String, p_Output): the result and the output.
TryParse(p_String) ==
    IF p_String # <<>>
    THEN LET r == stoi(p_String)
         IN  [l_result |-> r.thrown = "none", p_Output |-> r.value]
    ELSE [l_result |-> FALSE, p_Output |-> 0]

\* The locals of ApplicationConfig::Create before its loop.
CreateLocals ==
    [l_AddressFound |-> FALSE, l_Address |-> c_DefaultAddressString,
     l_PortFound |-> FALSE, l_Port |-> c_DefaultPortNumber,
     l_ModeFound |-> FALSE, l_Mode |-> "Unknown"]

\* The body of Create's for loop with l_itr at position i of p.
CreateBody(p, i, l) ==
    IF i + 1 <= Len(p)
    THEN LET l_Current == p[i]
             l_next == p[i + 1]
             a == IF ~l.l_AddressFound /\ l_Current = c_AddressString
                  THEN [l EXCEPT !.l_Address = l_next, !.l_AddressFound = TRUE]
                  ELSE l
             parsed == TryParse(l_next)
             b == IF ~a.l_PortFound /\ l_Current = c_PortString
                  THEN [a EXCEPT !.l_PortFound = parsed.l_result,
                                 !.l_Port = IF parsed.l_result
                                            THEN parsed.p_Output % PortModulus
                                            ELSE @]
                  ELSE a
             c == IF ~b.l_ModeFound /\ l_Current = c_ClientString
                  THEN [b EXCEPT !.l_ModeFound = TRUE, !.l_Mode = "Client"]
                  ELSE b
         IN  IF ~c.l_ModeFound /\ l_Current = c_ServerString
             THEN [c EXCEPT !.l_ModeFound = TRUE, !.l_Mode = "Server"]
             ELSE c
    ELSE l

\* Create's for loop from position i on.
RECURSIVE CreateLoop(_, _, _)
CreateLoop(p, i, l) ==
    IF i <= Len(p) THEN CreateLoop(p, i + 1, CreateBody(p, i, l)) ELSE l

\* An empty std::optional<ApplicationConfigPtr>.
NoConfig ==
    [has_value |-> FALSE, m_Mode |-> "Unknown", m_Address |-> <<>>, m_Port |-> 0]

\* ApplicationConfig::Create(p_ApplicationParameters)
Create(p_ApplicationParameters) ==
    IF p_ApplicationParameters # <<>>
    THEN LET l == CreateLoop(p_ApplicationParameters, 1, CreateLocals)
         IN  IF l.l_ModeFound
             THEN [has_value |-> TRUE, m_Mode |-> l.l_Mode,
                   m_Address |-> l.l_Address, m_Port |-> l.l_Port]
             ELSE NoConfig
    ELSE NoConfig

\* A command line that starts the server.
ServerArgs == <<ProgramName, c_ServerString, c_PortString, SomePort>>

\* ------------------------------------------------------------------- Init
\* The objects of RunServer before any of it has run.
NothingRun ==
    /\ l_Ops = 0
    /\ l_Sessions = <<>>
    /\ teardownIdx = 1
    /\ dtorStep = 1
    /\ m_ConnectionsCount = 0
    /\ m_ConnectedSockets = <<>>
    /\ Server_MasterExit = FALSE
    /\ acceptorOpen = FALSE
    /\ acceptOutstanding = 0
    /\ sess = [s \in SessionIds |-> Unborn]
    /\ sockets = [k \in SocketIds |-> ClosedSocket]
    /\ backlog = 0
    /\ connsMade = 0
    /\ acceptErrs = 0
    /\ lastOp = NoOp
    /\ received = [s \in SessionIds |-> <<>>]
    /\ executed = 0
    /\ discarded = [accept |-> 0, read |-> 0]
    /\ emptyFront = FALSE
    /\ danglingCall = FALSE

\* main has read ServerArgs, Create has made the Configuration of a server
\* and RunServer is entered.
Init ==
    /\ p_argv = ServerArgs
    /\ l_Params = [i \in 1..Len(ServerArgs) |-> StringToLower(ServerArgs[i])]
    /\ l_Config = Create(l_Params)
    /\ l_Config.has_value /\ l_Config.m_Mode = "Server"
    /\ pc = "ctor"
    /\ NothingRun

\* ------------------------------------------------------------ environment
\* The kernel keeps what the peers do until the program's one thread asks
\* for it: nothing in RunServer looks at the network except run_one(). The
\* peers' steps are therefore taken while the thread is about to call it.
AtRunOne == pc = "run_one"

nAccepted == Cardinality({k \in SocketIds : sockets[k].exists})

\* A peer opens a connection to the listening socket.
PeerConnect ==
    /\ AtRunOne
    /\ acceptorOpen
    /\ connsMade < MaxConnections
    /\ backlog' = backlog + 1
    /\ connsMade' = connsMade + 1
    /\ UNCHANGED <<mainVars, driverVars, serverVars, sess, sockets, acceptErrs, lastOp,
                   received, envVars>>

\* A peer delivers one byte on an accepted connection.
PeerSend ==
    \E k \in SocketIds, b \in Bytes :
        /\ AtRunOne
        /\ sockets[k].exists
        /\ sockets[k].open
        /\ Len(sockets[k].inbox) < MaxInbox
        /\ sockets' = [sockets EXCEPT ![k].inbox = Append(@, b)]
        /\ UNCHANGED <<mainVars, driverVars, serverVars, sess, peerVars, lastOp,
                       received, envVars>>

\* --------------------------------------------------------------- RunServer

\* asio::io_context l_IOContext(1); Server l_Server(l_IOContext, p_Config);
\* The acceptor's constructor opens, binds and listens, and throws when it
\* cannot; nothing in RunServer or main catches the exception.
ServerCtor ==
    /\ pc = "ctor"
    /\ \E bound \in BOOLEAN :
        IF bound
        THEN /\ acceptorOpen' = TRUE
             /\ acceptOutstanding' = acceptOutstanding + 1
             /\ pc' = "run_one"
        ELSE /\ pc' = "terminated"
             /\ UNCHANGED <<acceptorOpen, acceptOutstanding>>
    /\ UNCHANGED <<mainVars, l_Ops, l_Sessions, teardownIdx, dtorStep,
                   m_ConnectionsCount, m_ConnectedSockets, Server_MasterExit,
                   sess, sockets, peerVars, lastOp, received, envVars>>

\* What async_accept can report: a connection taken from the backlog, a
\* transport error, or operation_aborted after the acceptor was closed.
AcceptOutcomes ==
    IF acceptorOpen
    THEN (IF backlog > 0 THEN {"ok"} ELSE {})
         \cup (IF acceptErrs < MaxAcceptErrors THEN {"error"} ELSE {})
    ELSE {"aborted"}

\* l_Ops += l_IOContext.run_one() executing the handler of async_accept
\* (the lambda in Server::StartAccept).
RunOneAccept ==
    /\ pc = "run_one"
    /\ acceptOutstanding > 0
    /\ \E ec \in AcceptOutcomes :
        /\ m_ConnectionsCount' = m_ConnectionsCount + 1
        /\ IF AcceptPushes(ec)
           THEN /\ m_ConnectedSockets' = Append(m_ConnectedSockets, nAccepted + 1)
                /\ sockets' = [sockets EXCEPT ![nAccepted + 1] =
                                  [exists |-> TRUE, open |-> TRUE, inbox |-> <<>>,
                                   closes |-> 0]]
           ELSE UNCHANGED <<m_ConnectedSockets, sockets>>
        /\ acceptOutstanding' =
               (acceptOutstanding - 1) + (IF ReArmAccept(ec, Server_MasterExit) THEN 1 ELSE 0)
        /\ backlog' = IF ec = "ok" THEN backlog - 1 ELSE backlog
        /\ acceptErrs' = IF ec = "error" THEN acceptErrs + 1 ELSE acceptErrs
        /\ lastOp' = [kind |-> "accept", id |-> 0, ec |-> ec, bytes |-> 0]
    /\ executed' = executed + 1
    /\ l_Ops' = l_Ops + 1
    /\ pc' = "check"
    /\ UNCHANGED <<mainVars, l_Sessions, teardownIdx, dtorStep, Server_MasterExit,
                   acceptorOpen, sess, connsMade, received, faultVars>>

\* What async_read can report for a read armed on socket so: success once
\* ReadBufferSize bytes are there, a transport error, or operation_aborted
\* after the socket was closed.
ReadOutcomes(so) ==
    IF so.open
    THEN {"error"} \cup (IF Len(so.inbox) >= ReadBufferSize THEN {"ok"} ELSE {})
    ELSE {"aborted"} \cup (IF ReadBufferSize = 0 THEN {"ok"} ELSE {})

\* l_Ops += l_IOContext.run_one() executing the handler of async_read
\* (the lambda in Session::StartRead).
RunOneRead ==
    /\ pc = "run_one"
    /\ \E s \in SessionIds :
        /\ sess[s].reads > 0
        /\ LET k == sess[s].m_Socket
               so == sockets[k]
           IN \E ec \in ReadOutcomes(so) :
               LET n == IF ec = "ok" THEN ReadBufferSize ELSE 0
                   data == SubSeq(so.inbox, 1, n)
               IN /\ sess' = [sess EXCEPT ![s] = ReadHandler(sess[s], so.open, ec, data)]
                  /\ sockets' = [sockets EXCEPT ![k].inbox = SubSeq(@, n + 1, Len(@))]
                  /\ received' = IF ec = "ok" /\ n > 0
                                 THEN [received EXCEPT ![s] = Append(@, data)]
                                 ELSE received
                  /\ lastOp' = [kind |-> "read", id |-> s, ec |-> ec, bytes |-> n]
                  /\ danglingCall' = (danglingCall \/ sess[s].state # "live")
    /\ executed' = executed + 1
    /\ l_Ops' = l_Ops + 1
    /\ pc' = "check"
    /\ UNCHANGED <<mainVars, l_Sessions, teardownIdx, dtorStep, serverVars, peerVars,
                   discarded, emptyFront>>

\* if (l_Server.ConnectionWaiting())
DriverCheck ==
    /\ pc = "check"
    /\ pc' = IF ConnectionWaiting THEN "claim" ELSE "while"
    /\ UNCHANGED <<mainVars, l_Ops, l_Sessions, teardownIdx, dtorStep, serverVars, sess,
                   sockets, peerVars, lastOp, received, envVars>>

\* auto l_Connection = l_Server.GetNextConnection();
\* if (l_Connection.has_value()) { new Session(...); l_Sessions.push_back(...); }
DriverClaim ==
    /\ pc = "claim"
    /\ IF m_ConnectedSockets # <<>>
       THEN LET k == Head(m_ConnectedSockets)
                s == Len(l_Sessions) + 1
            IN /\ m_ConnectedSockets' = QueueAfterPop(m_ConnectedSockets)
               /\ sess' = [sess EXCEPT ![s] = NewSession(k, sockets[k].open)]
               /\ l_Sessions' = Append(l_Sessions, s)
               /\ UNCHANGED emptyFront
       ELSE /\ emptyFront' = TRUE
            /\ UNCHANGED <<m_ConnectedSockets, sess, l_Sessions>>
    /\ pc' = "while"
    /\ UNCHANGED <<mainVars, l_Ops, teardownIdx, dtorStep, m_ConnectionsCount,
                   Server_MasterExit, acceptorOpen, acceptOutstanding, sockets,
                   peerVars, lastOp, received, executed, discarded,
                   danglingCall>>

\* Variant: the loop test is off by one.
LoopContinues_OffByOne(ops) == ops <= OpsThreshold

\* while (l_Ops < 100)
LoopContinues(ops) == ops < OpsThreshold

DriverWhile ==
    /\ pc = "while"
    /\ pc' = IF LoopContinues(l_Ops) THEN "run_one" ELSE "teardown"
    /\ UNCHANGED <<mainVars, l_Ops, l_Sessions, teardownIdx, dtorStep, serverVars, sess,
                   sockets, peerVars, lastOp, received, envVars>>

\* for (auto& session : l_Sessions) { delete session; }: one statement of
\* ~Session at a time.
DeleteSession ==
    /\ pc = "teardown"
    /\ teardownIdx <= Len(l_Sessions)
    /\ LET s == l_Sessions[teardownIdx]
           k == sess[s].m_Socket
           last == dtorStep = 2
       IN /\ IF DtorStatement(dtorStep) = "flag"
             THEN /\ sess' = [sess EXCEPT ![s].m_MasterExit = TRUE,
                                          ![s].state = IF last THEN "destroyed" ELSE "dying"]
                  /\ UNCHANGED sockets
             ELSE /\ sockets' = [sockets EXCEPT ![k] = Close(@)]
                  /\ sess' = [sess EXCEPT ![s].state = IF last THEN "destroyed" ELSE "dying"]
          /\ dtorStep' = IF last THEN 1 ELSE 2
          /\ teardownIdx' = IF last THEN teardownIdx + 1 ELSE teardownIdx
    /\ UNCHANGED <<mainVars, pc, l_Ops, l_Sessions, serverVars, peerVars, lastOp,
                   received, envVars>>

\* Variant: the Driver goes round its loop once more after the deletes.
AfterSessionsGone_RunsOn == "run_one"

\* After l_Sessions.clear() RunServer returns: nothing calls run_one() again,
\* l_Server is destroyed next.
AfterSessionsGone == "server_dtor"

\* l_Sessions.clear();
ClearSessions ==
    /\ pc = "teardown"
    /\ teardownIdx > Len(l_Sessions)
    /\ l_Sessions' = <<>>
    /\ pc' = AfterSessionsGone
    /\ UNCHANGED <<mainVars, l_Ops, teardownIdx, dtorStep, serverVars, sess, sockets,
                   peerVars, lastOp, received, envVars>>

\* Server::~Server: m_MasterExit = true; m_Acceptor.close(); then the
\* members go, the queue of unclaimed sockets among them.
ServerDtor ==
    /\ pc = "server_dtor"
    /\ Server_MasterExit' = TRUE
    /\ acceptorOpen' = FALSE
    /\ sockets' = [k \in SocketIds |->
                     IF \E i \in 1..Len(m_ConnectedSockets) : m_ConnectedSockets[i] = k
                     THEN [sockets[k] EXCEPT !.open = FALSE]
                     ELSE sockets[k]]
    /\ m_ConnectedSockets' = <<>>
    /\ pc' = "ctx_dtor"
    /\ UNCHANGED <<mainVars, l_Ops, l_Sessions, teardownIdx, dtorStep, m_ConnectionsCount,
                   acceptOutstanding, sess, peerVars, lastOp, received, envVars>>

RECURSIVE SumReads(_)
SumReads(S) ==
    IF S = {} THEN 0
    ELSE LET s == CHOOSE x \in S : TRUE IN sess[s].reads + SumReads(S \ {s})

\* l_IOContext goes out of scope: the handlers never run are destroyed, not
\* invoked; RunServer returns and main ends.
IoContextDtor ==
    /\ pc = "ctx_dtor"
    /\ discarded' = [accept |-> acceptOutstanding, read |-> SumReads(SessionIds)]
    /\ acceptOutstanding' = 0
    /\ sess' = [s \in SessionIds |-> [sess[s] EXCEPT !.reads = 0]]
    /\ pc' = "done"
    /\ UNCHANGED <<mainVars, l_Ops, l_Sessions, teardownIdx, dtorStep, m_ConnectionsCount,
                   m_ConnectedSockets, Server_MasterExit, acceptorOpen, sockets,
                   peerVars, lastOp, received, executed, emptyFront,
                   danglingCall>>

\* ------------------------------------------- calls of Session's public API
\* The callers share the program's one thread: they call between two
\* iterations of the Driver's loop, before run_one().
\* Some caller besides the Session itself invokes StartRead().
CallStartRead ==
    /\ AtRunOne
    /\ \E s \in SessionIds :
        /\ sess[s].state = "live"
        /\ sess' = [sess EXCEPT ![s] = StartRead(@, sockets[sess[s].m_Socket].open)]
    /\ UNCHANGED <<mainVars, driverVars, serverVars, sockets, peerVars, lastOp, received,
                   envVars>>

\* Some caller invokes Close() on a Session it keeps alive.
CallClose ==
    /\ AtRunOne
    /\ \E s \in SessionIds :
        /\ sess[s].state = "live"
        /\ sockets' = [sockets EXCEPT ![sess[s].m_Socket] = Close(@)]
    /\ UNCHANGED <<mainVars, driverVars, serverVars, sess, peerVars, lastOp, received,
                   envVars>>

\* ---------------------------------------------------------- specifications
Program ==
    \/ ServerCtor
    \/ RunOneAccept
    \/ RunOneRead
    \/ DriverCheck
    \/ DriverClaim
    \/ DriverWhile
    \/ DeleteSession
    \/ ClearSessions
    \/ ServerDtor
    \/ IoContextDtor

Next ==
    \/ Program
    \/ PeerConnect
    \/ PeerSend

\* The server run as main starts it.
Spec == Init /\ [][Next]_vars

\* The server run whose thread is never starved: a step of the program that
\* stays possible is eventually taken.
FairSpec == Spec /\ WF_vars(Program)

\* main from its first statement on, whatever the command line.
ConfigInit ==
    /\ p_argv \in ArgLists
    /\ l_Params = <<>>
    /\ l_Config = NoConfig
    /\ pc = "main"
    /\ NothingRun

\* for (int i {0}; i < p_argc; ++i) { ...; StringToLower(l_param);
\* l_Params.push_back(l_param); }
MainParams ==
    /\ pc = "main"
    /\ l_Params' = [i \in 1..Len(p_argv) |-> StringToLower(p_argv[i])]
    /\ pc' = "create"
    /\ UNCHANGED <<p_argv, l_Config, l_Ops, l_Sessions, teardownIdx, dtorStep,
                   serverVars, sess, sockets, peerVars, lastOp, received,
                   envVars>>

\* auto l_Config = ApplicationConfig::Create(l_Params); and the dispatch on
\* it: RunServer, RunClient, or Usage().
MainCreate ==
    /\ pc = "create"
    /\ l_Config' = Create(l_Params)
    /\ pc' = IF l_Config'.has_value
             THEN (IF l_Config'.m_Mode = "Server" THEN "ctor" ELSE "client")
             ELSE "usage"
    /\ UNCHANGED <<p_argv, l_Params, l_Ops, l_Sessions, teardownIdx, dtorStep,
                   serverVars, sess, sockets, peerVars, lastOp, received,
                   envVars>>

ConfigNext ==
    \/ MainParams
    \/ MainCreate

\* main up to the dispatch on the Configuration, for every command line.
ConfigSpec == ConfigInit /\ [][ConfigNext]_vars

ApiNext ==
    \/ Next
    \/ CallStartRead
    \/ CallClose

\* The server run with callers that use Session's public methods.
ApiSpec == Init /\ [][ApiNext]_vars

\* ------------------------------------------------------------- vocabulary
\* The socket a Session owns.
SocketOf(s) == sockets[sess[s].m_Socket]

\* A live Session in the sense of the specification: constructed, not being
\* destroyed, socket open, shutdown flag not set.
Live(s) ==
    /\ sess[s].state = "live"
    /\ SocketOf(s).open
    /\ ~sess[s].m_MasterExit

\* This step is run_one() executing a read completion of Session s.
ReadRan(s) ==
    /\ l_Ops' = l_Ops + 1
    /\ lastOp'.kind = "read"
    /\ lastOp'.id = s

\* This step is run_one() executing an accept completion.
AcceptRan ==
    /\ l_Ops' = l_Ops + 1
    /\ lastOp'.kind = "accept"

\* Successful accept completions so far, counted on the peers' side.
AcceptedOk == connsMade - backlog

\* GetNextConnection claims so far: one Session is constructed per claim.
Claims == Cardinality({s \in SessionIds : sess[s].state # "unborn"})

\* Positions of socket k in the Acceptor's pending queue.
QueuePositions(k) ==
    {i \in 1..Len(m_ConnectedSockets) : m_ConnectedSockets[i] = k}

\* Sessions constructed on socket k.
OwningSessions(k) ==
    {s \in SessionIds : sess[s].state # "unborn" /\ sess[s].m_Socket = k}

\* The Acceptor object exists (constructed, not yet destroyed).
ServerAlive == pc \in {"run_one", "check", "claim", "while", "teardown", "server_dtor"}

\* ------------------------------------------------------------------ C1
\* C1: a successful read completion on a live Session whose peer has
\* delivered bytes pushes one entry holding delivered bytes onto that
\* Session's message queue (the step that makes "data that arrives is
\* eventually queued" true).
C1_DataReachesQueue ==
    [][\A s \in SessionIds :
        (ReadRan(s) /\ lastOp'.ec = "ok" /\ Live(s) /\ SocketOf(s).inbox # <<>>)
        => /\ Len(sess'[s].m_Messages) = Len(sess[s].m_Messages) + 1
           /\ LET m == sess'[s].m_Messages[Len(sess'[s].m_Messages)]
              IN  m # <<>> /\ m = SubSeq(SocketOf(s).inbox, 1, Len(m))]_vars

\* ------------------------------------------------------------------ C2
\* C2: with nothing consumed, a Session's message queue is exactly the
\* sequence of payloads of its successful reads that transferred at least
\* one byte, in completion order; zero-byte and failed reads add nothing.
C2_QueueIsReceived ==
    \A s \in SessionIds :
        /\ sess[s].m_Messages = received[s]
        /\ Len(sess[s].m_Messages) = Len(received[s])

\* A failed read has just completed on a Session that already went through
\* zero-byte reads, with peer data waiting, and its queue has no entry.
C2_Witness ==
    \E s \in SessionIds :
        /\ lastOp.kind = "read" /\ lastOp.id = s /\ lastOp.ec = "error"
        /\ l_Ops >= 4
        /\ SocketOf(s).inbox # <<>>
        /\ sess[s].m_Messages = <<>>

\* ------------------------------------------------------------------ C3
\* C3: while the Acceptor exists, its pending queue holds as many sockets as
\* accepts have succeeded minus claims made, and ConnectionWaiting is true
\* exactly when that number is positive: true before the claim of a single
\* accepted socket, false right after it.
C3_PendingCount ==
    ServerAlive =>
        /\ Len(m_ConnectedSockets) = AcceptedOk - Claims
        /\ ConnectionWaiting <=> (AcceptedOk - Claims > 0)
        /\ (pc = "claim" /\ AcceptedOk = 1 /\ Claims = 0) => ConnectionWaiting
        /\ (pc = "while" /\ AcceptedOk = 1 /\ Claims = 1) => ~ConnectionWaiting

\* One accept has succeeded and the Driver has just claimed its socket.
C3_Witness ==
    /\ pc = "while"
    /\ AcceptedOk = 1
    /\ Claims = 1
    /\ ~ConnectionWaiting

\* ------------------------------------------------------------------ C4
\* C4: every Session has at most one read in flight, and until it is
\* destroyed its m_ReadWait flag is true exactly while a read is in flight,
\* whoever calls StartRead.
C4_OneReadInFlight ==
    \A s \in SessionIds :
        /\ sess[s].reads <= 1
        /\ sess[s].state \in {"live", "dying"}
             => (sess[s].m_ReadWait <=> sess[s].reads = 1)

\* A read completion has re-armed the read of a Session: one read in flight.
C4_Witness ==
    \E s \in SessionIds :
        /\ lastOp.kind = "read" /\ lastOp.id = s
        /\ sess[s].state = "live"
        /\ sess[s].m_ReadWait
        /\ sess[s].reads = 1

\* ------------------------------------------------------------------ C5
\* C5: an accept completion with an error leaves the pending queue as it
\* was and, the shutdown flag not being set, leaves one accept armed; in
\* the Driver's loop there is always exactly one accept outstanding.
C5_FailedAcceptRearms ==
    /\ [](pc \in {"run_one", "check", "claim", "while"} => acceptOutstanding = 1)
    /\ [][(AcceptRan /\ lastOp'.ec # "ok")
            => /\ m_ConnectedSockets' = m_ConnectedSockets
               /\ ~Server_MasterExit => acceptOutstanding' = 1]_vars

\* After a failed accept a later connection was accepted and queued.
C5_Witness ==
    /\ acceptErrs >= 1
    /\ pc = "check"
    /\ lastOp.kind = "accept" /\ lastOp.ec = "ok"
    /\ ConnectionWaiting
    /\ acceptOutstanding = 1

\* ------------------------------------------------------------------ C6
\* C6 as stated: a read completion with an error leaves the message queue
\* as it was and, the shutdown flag not being set, arms another read.
C6_ErrorAlwaysRearms ==
    [][\A s \in SessionIds :
        (ReadRan(s) /\ lastOp'.ec # "ok")
        => /\ sess'[s].m_Messages = sess[s].m_Messages
           /\ ~sess[s].m_MasterExit
                => (sess'[s].m_ReadWait /\ sess'[s].reads = 1)]_vars

\* C6 amended: a read completion with an error leaves the message queue as
\* it was; it arms another read when the shutdown flag is not set and the
\* socket is still open, and arms none when the socket is closed.
C6_ErrorRearmsWhileOpen ==
    [][\A s \in SessionIds :
        (ReadRan(s) /\ lastOp'.ec # "ok")
        => /\ sess'[s].m_Messages = sess[s].m_Messages
           /\ (~sess[s].m_MasterExit /\ SocketOf(s).open)
                => (sess'[s].m_ReadWait /\ sess'[s].reads = 1)
           /\ ~SocketOf(s).open
                => (~sess'[s].m_ReadWait /\ sess'[s].reads = 0)]_vars

\* A read of a live Session has just failed and another read is armed.
C6_Witness ==
    \E s \in SessionIds :
        /\ pc = "check"
        /\ lastOp.kind = "read" /\ lastOp.id = s /\ lastOp.ec = "error"
        /\ Live(s)
        /\ sess[s].m_ReadWait
        /\ sess[s].reads = 1

\* ------------------------------------------------------------------ C7
\* C7: while the Acceptor exists, every accepted socket is owned exactly
\* once: it sits once in the pending queue or belongs to one Session, and
\* a Session's socket is always an accepted one.
C7_OneOwner ==
    ServerAlive =>
        /\ \A k \in SocketIds :
              sockets[k].exists
                => Cardinality(QueuePositions(k)) + Cardinality(OwningSessions(k)) = 1
        /\ \A s \in SessionIds :
              sess[s].state # "unborn"
                => sess[s].m_Socket \in SocketIds /\ sockets[sess[s].m_Socket].exists

\* One accepted socket has been claimed by a Session while another one is
\* still waiting in the pending queue.
C7_Witness ==
    /\ pc = "claim"
    /\ Claims = 1
    /\ Len(m_ConnectedSockets) = 1
    /\ OwningSessions(1) = {1}
    /\ QueuePositions(2) = {1}

\* ------------------------------------------------------------------ C8
\* C8: a Session's socket is closed only after its shutdown flag has been
\* set, and no read completion that runs with the flag set arms a read.
C8_FlagBeforeClose ==
    /\ [](\A s \in SessionIds :
            (sess[s].state # "unborn" /\ ~SocketOf(s).open) => sess[s].m_MasterExit)
    /\ [][\A s \in SessionIds :
            (ReadRan(s) /\ sess[s].m_MasterExit)
            => (~sess'[s].m_ReadWait /\ sess'[s].reads < sess[s].reads)]_vars

\* A Session is being destroyed: its flag is set, its socket still open.
C8_Witness ==
    \E s \in SessionIds :
        /\ sess[s].state = "dying"
        /\ sess[s].m_MasterExit
        /\ SocketOf(s).open

CompletionReady ==
    \/ acceptOutstanding > 0 /\ AcceptOutcomes # {}
    \/ \E s \in SessionIds : sess[s].reads > 0

\* C10: every change of l_Ops is one run_one() step that executes exactly
\* one completion; the loop runs only below the threshold and is left only
\* at the threshold; and unless run_one() is left waiting with no ready
\* completion, the run ends, having executed OpsThreshold completions.
C10_RunsToThreshold ==
    /\ [][(l_Ops' # l_Ops \/ executed' # executed)
            => /\ pc = "run_one" /\ pc' = "check"
               /\ l_Ops' = l_Ops + 1
               /\ executed' = executed + 1
               /\ lastOp'.kind \in {"accept", "read"}]_vars
    /\ [](pc = "run_one" => l_Ops < OpsThreshold)
    /\ [](pc \in {"teardown", "server_dtor", "ctx_dtor", "done"}
            => (l_Ops = OpsThreshold /\ executed = OpsThreshold))
    /\ (pc = "run_one") ~> (pc = "done" \/ ~CompletionReady)

\* The run is over after exactly OpsThreshold completions.
C10_Witness ==
    /\ pc = "done"
    /\ l_Ops = OpsThreshold
    /\ executed = OpsThreshold

\* ----------------------------------------------------------------- C11
\* C11: with a Configuration produced no error ends the run early: the run
\* is never cut off by a failure, and whenever it has left the Driver's
\* loop the fixed budget of OpsThreshold completions has been used up.
C11_NoFatalError ==
    /\ pc # "terminated"
    /\ pc \notin {"ctor", "run_one", "check", "claim", "while"}
         => executed = OpsThreshold

\* ----------------------------------------------------------------- C12
\* C12: when the run is over every Session the Driver created is destroyed
\* with its shutdown flag set and its socket closed, l_Sessions is empty,
\* the listening socket is closed and no accepted socket is open.
C12_AllClosedAtStop ==
    pc = "done" =>
        /\ \A s \in SessionIds :
              sess[s].state # "unborn"
                => /\ sess[s].state = "destroyed"
                   /\ sess[s].m_MasterExit
                   /\ ~SocketOf(s).open
        /\ l_Sessions = <<>>
        /\ ~acceptorOpen
        /\ \A k \in SocketIds : ~sockets[k].open

\* The run is over, it had created two Sessions, and all is closed.
C12_Witness ==
    /\ pc = "done"
    /\ Claims = 2
    /\ \A s \in SessionIds : sess[s].state = "destroyed" /\ ~SocketOf(s).open
    /\ ~acceptorOpen

\* ----------------------------------------------------------------- C13
\* C13: StartRead on a live Session whose socket is closed, or whose read
\* is pending, changes nothing of the Session, however often it is called;
\* a live Session gets a read armed only with its socket open and no read
\* pending.
C13_StartReadNoOp ==
    /\ [](\A s \in SessionIds :
            (sess[s].state = "live" /\ (~SocketOf(s).open \/ sess[s].m_ReadWait))
            => /\ StartRead(sess[s], SocketOf(s).open) = sess[s]
               /\ StartRead(StartRead(sess[s], SocketOf(s).open), SocketOf(s).open)
                    = sess[s])
    /\ [][\A s \in SessionIds :
            (sess[s].state = "live" /\ sess'[s].reads > sess[s].reads)
            => (SocketOf(s).open /\ ~sess[s].m_ReadWait)]_vars

\* One live Session has its socket closed and no read armed, another one
\* has its read pending.
C13_Witness ==
    \E s, t \in SessionIds :
        /\ sess[s].state = "live" /\ ~SocketOf(s).open
        /\ ~sess[s].m_ReadWait /\ sess[s].reads = 0
        /\ sess[t].state = "live" /\ SocketOf(t).open
        /\ sess[t].m_ReadWait /\ sess[t].reads = 1

\* ----------------------------------------------------------------- C14
\* C14: close() is called at most once on any socket, whatever the number
\* of Close() calls and the destructor do; a socket that was closed stays
\* closed, Close() on it changes nothing, and a destroyed Session's socket
\* is closed after exactly one close().
C14_CloseIdempotent ==
    \A k \in SocketIds :
        /\ sockets[k].closes <= 1
        /\ sockets[k].closes = 1 => ~sockets[k].open
        /\ ~sockets[k].open => Close(sockets[k]) = sockets[k]
        /\ Close(Close(sockets[k])) = Close(sockets[k])
        /\ \A s \in SessionIds :
              (sess[s].state = "destroyed" /\ sess[s].m_Socket = k)
                => (~sockets[k].open /\ sockets[k].closes = 1)

\* A Session whose socket a caller had closed (its aborted read was handled
\* in the loop) has been destroyed: one close() in all.
C14_Witness ==
    /\ pc = "server_dtor"
    /\ \E s \in SessionIds :
        /\ sess[s].state = "destroyed"
        /\ sess[s].reads = 0
        /\ ~SocketOf(s).open
        /\ SocketOf(s).closes = 1

\* ----------------------------------------------------------------- C15
\* C15: once Create has run on a token list holding a role token at any
\* position (the last one included), there is a Configuration: its role is
\* that of a role token of the list, its address is the token after the
\* first `address` or 127.0.0.1, its port the number after `port` or 7500.
\* The lists meant are the valid ones: what follows `port` is a number.
C15_RoleTokenGivesConfig ==
    LET p == l_Params
        roles == {c_ServerString, c_ClientString}
        hasRole == \E i \in 1..Len(p) : p[i] \in roles
        addressAt == {i \in 1..(Len(p) - 1) : p[i] = c_AddressString}
        portAt == {i \in 1..(Len(p) - 1) :
                     /\ p[i] = c_PortString
                     /\ p[i + 1] # <<>>
                     /\ \A j \in 1..Len(p[i + 1]) : IsDigit(p[i + 1][j])}
        valid == \A i \in 1..(Len(p) - 1) : p[i] = c_PortString => i \in portAt
        first(S) == CHOOSE i \in S : \A j \in S : i <= j
        address == IF addressAt = {} THEN c_DefaultAddressString
                   ELSE p[first(addressAt) + 1]
        port == IF portAt = {} THEN c_DefaultPortNumber
                ELSE DigitsValue(p[first(portAt) + 1], 1,
                                 Len(p[first(portAt) + 1]), 0)
    IN  (pc \in {"ctor", "client", "usage"} /\ valid /\ hasRole)
        => /\ l_Config.has_value
           /\ \/ l_Config.m_Mode = "Server" /\ \E i \in 1..Len(p) : p[i] = c_ServerString
              \/ l_Config.m_Mode = "Client" /\ \E i \in 1..Len(p) : p[i] = c_ClientString
           /\ l_Config.m_Address = address
           /\ l_Config.m_Port = port

\* ----------------------------------------------------------------- C16
\* C16: no completion handler runs on a destroyed object. From the first
\* delete of a Session on, no handler is executed at all, and the reads and
\* the accept still pending at the end are discarded by the io_context, one
\* read per Session and the one accept.
C16_NoHandlerAfterDestroy ==
    /\ [](~danglingCall)
    /\ [][(pc \in {"teardown", "server_dtor", "ctx_dtor", "done"})
            => (executed' = executed /\ lastOp' = lastOp /\ l_Ops' = l_Ops)]_vars
    /\ [](pc = "done" =>
            /\ discarded.accept = 1
            /\ discarded.read = Claims
            /\ acceptOutstanding = 0
            /\ \A s \in SessionIds : sess[s].reads = 0)

\* The run has ended with two Sessions destroyed: their two reads and the
\* accept were dropped, and the handlers executed are those of the loop.
C16_Witness ==
    /\ pc = "done"
    /\ discarded = [accept |-> 1, read |-> 2]
    /\ executed = OpsThreshold
    /\ \A s \in SessionIds : sess[s].state = "destroyed"

\* ----------------------------------------------------------------- C17
\* C17: GetNextConnection is never called on an empty queue: the Driver is
\* at the call only with a socket queued, and it gets there only from the
\* ConnectionWaiting test of the same iteration, no completion in between.
C17_ClaimOnlyAfterCheck ==
    /\ [](~emptyFront /\ (pc = "claim" => m_ConnectedSockets # <<>>))
    /\ [][(pc' = "claim" /\ pc # "claim")
            => /\ pc = "check"
               /\ m_ConnectedSockets # <<>>
               /\ executed' = executed
               /\ m_ConnectedSockets' = m_ConnectedSockets]_vars

\* The Driver is about to call GetNextConnection after a successful accept.
C17_Witness ==
    /\ pc = "claim"
    /\ lastOp.kind = "accept" /\ lastOp.ec = "ok"
    /\ Len(m_ConnectedSockets) = 1
    /\ ~emptyFront

\* ----------------------------------------------------------------- C18
\* C18: the pending queue never holds more than one socket, it is empty at
\* the end of every iteration of the Driver's loop, and by then every socket
\* accepted so far has its Session.
C18_QueueDrainedEachIteration ==
    /\ Len(m_ConnectedSockets) <= 1
    /\ pc \in {"while", "run_one", "teardown"} =>
          /\ m_ConnectedSockets = <<>>
          /\ \A k \in SocketIds : sockets[k].exists => Cardinality(OwningSessions(k)) = 1
          /\ Claims = AcceptedOk

\* An iteration that accepted the second connection is at its end.
C18_Witness ==
    /\ pc = "while"
    /\ lastOp.kind = "accept" /\ lastOp.ec = "ok"
    /\ m_ConnectedSockets = <<>>
    /\ AcceptedOk = 2
    /\ Claims = 2

\* ----------------------------------------------------------------- C19
\* C19: while the Acceptor exists its connection counter equals the number
\* of accept completions that succeeded.
C19_CounterCountsSuccesses ==
    ServerAlive => m_ConnectionsCount = AcceptedOk

====
